---- MODULE Spec2Model ----
(***************************************************************************)
(* A model of movie_maker's script pipeline: the HTTP routes of            *)
(* src/api/main.py driving DirectorService (src/services/                  *)
(* director_service.py) against the project's script.json.                 *)
(*                                                                         *)
(* One project and one request in flight at a time.  An LLM call is one    *)
(* step; its response is drawn from Responses.  A node of the document     *)
(* (chapter, scene, shot) carries its number and a tag: the request that   *)
(* produced its content (0 for content no validated response produced).    *)
(* Indices are 0-based where the Python code's are (chapter_idx,           *)
(* scene_idx, shot_number); TLA+ sequences are 1-based, so the i-th        *)
(* Python element is seq[i + 1].                                           *)
(***************************************************************************)
EXTENDS Integers, Sequences, FiniteSets, TLC

\* ------------------------------------------------------------------ bounds
MaxChapters == 2
MaxScenes == 2
MaxShots == 2
MaxRequests == 3
\* the largest max_retries a direct caller of generate_shots passes
MaxPassedRetries == 2

\* ------------------------------------------------------- program constants
\* max_retries: int = 10 (generate_scenes, generate_shots, generate_chapters,
\* regenerate_chapter)
DefaultMaxRetries == 10
\* Shot.shot_number / Scene.scene_number default of the pydantic models
UnsetNumber == -1
\* specific_chapter_index / specific_scene_index: None
NoIndex == -1

VARIABLES
    request,    \* the ProjectDetails of the project (fixed)
    disk,       \* temp/<project>/script.json, NoScript when the file is absent
    s3,         \* s3://<bucket>/<project>/script.json, NoScript when absent
    script,     \* the in-memory Script of the request in flight / last returned
    pc,         \* where the request in flight stands ("idle": none in flight)
    caller,     \* the entry point of the request in flight / last finished
    result,     \* outcome of the last finished request: HTTP status, raise site
    reqNo,      \* number of requests started so far
    gsargs,     \* generate_shots' arguments, and what it was entered with
    loop,       \* the locals of the loop in execution / that raised
    route,      \* the route handler's own locals
    scenes,     \* the local list `scenes` (generate_scenes, regenerate-chapter route)
    calls,      \* the nodes the request has issued an LLM call for
    nodeCalls,  \* consecutive LLM calls issued for lastNode
    lastNode,   \* the node of the last LLM call
    lastResp,   \* the last LLM response received
    prompt,     \* the prompt of the last LLM call
    disk0,      \* disk when the request started
    script0,    \* the Script the request loaded or was posted
    args,       \* the indices the request in flight / last finished was sent
    parked,     \* a second server process: its request's locals while the first runs
    blobs,      \* temp/<project>/chapter_c/scene_s/...: the media file at each path
    call,       \* the last media adapter call: its arguments and what it returned
    batch,      \* the whole-script media batch in execution / that last returned
    instances,  \* the media service objects the process keeps: the temp_dir of each
    served,     \* the last media request: its project and the directory it used
    files,      \* the <<directory, service>> pairs: which service wrote under which
    task        \* the RunwayML task of the generate_video call in flight / last returned

vars == <<request, disk, s3, script, pc, caller, result, reqNo, gsargs, loop, route, scenes,
          calls, nodeCalls, lastNode, lastResp, prompt, disk0, script0, args, parked,
          blobs, call, batch, instances, served, files, task>>

\* ------------------------------------------------------------- data model
\* List[...] | None = None
NoneList == [isNone |-> TRUE, items |-> <<>>]
SomeList(s) == [isNone |-> FALSE, items |-> s]
\* Python truthiness of an optional list: `not x` holds for None and for []
Falsy(l) == l.items = <<>>

NoDetails == [number_of_chapters |-> 0, number_of_scenes |-> 0, number_of_shots |-> 0]
NoScript == [project_details |-> NoDetails, chapters |-> <<>>]

ProjectDetailsSet ==
    [number_of_chapters : 1..MaxChapters,
     number_of_scenes : 1..MaxScenes,
     number_of_shots : 1..MaxShots]

NoResp == [kind |-> "none", number |-> 0, tag |-> 0]

\* What invoke_llm may return for the node at 1-based position pos: a response
\* that parses and validates (carrying whatever number the model chose), one
\* that is not JSON, one that is JSON but fails validation.  count is the
\* length of the "chapters" array of a chapter-list response.
Responses(pos, counts) ==
    {[kind |-> "valid", number |-> m, tag |-> reqNo, count |-> c] :
        m \in {pos, UnsetNumber}, c \in counts}
    \cup {[kind |-> k, number |-> UnsetNumber, tag |-> 0, count |-> 0] :
        k \in {"bad_json", "bad_schema"}}

ScenesOf(s, ci) == s.chapters[ci + 1].scenes
SceneAt(s, ci, si) == s.chapters[ci + 1].scenes.items[si + 1]
ShotsOf(s, ci, si) == SceneAt(s, ci, si).shots

SetShots(s, ci, si, shots) ==
    [s EXCEPT !.chapters[ci + 1].scenes.items[si + 1].shots = shots]

\* every <<chapter_idx, scene_idx>> of the script, in enumerate() order
ScenePairs(s) ==
    {<<ci, si>> \in (0..(Len(s.chapters) - 1)) \X (0..(MaxScenes + 1)) :
        si < Len(ScenesOf(s, ci).items)}
Before(p, q) == p[1] < q[1] \/ (p[1] = q[1] /\ p[2] < q[2])
First(S) == CHOOSE p \in S : \A q \in S : p = q \/ Before(p, q)

\* chapter_idx, scene_idx: the enumerate() indices; number: shot_number in
\* generate_shots, scene_number in generate_scenes (both 0-based range() values);
\* attempt: the range(max_retries) value of generate_chapters / regenerate_chapter
LoopIdle == [chapter_idx |-> 0, scene_idx |-> 0, number |-> 0,
             remaining_attempts |-> 0, prev_error |-> "N/A", attempt |-> 0]
NoRoute == [chapter_idx |-> 0, scene_idx |-> 0, shot_idx |-> 0, scene_i |-> 0]
NoArgs == [max_retries |-> 0, regenerate |-> FALSE,
           specific_chapter_index |-> NoIndex, specific_scene_index |-> NoIndex,
           entry_script |-> NoScript, entry_disk |-> NoScript]
NoNode == <<"none", 0, 0, 0>>
StartPair == <<-1, 0>>
Ok == [status |-> "ok", raised |-> "none"]
Pending == [status |-> "pending", raised |-> "none"]
Http(code, site) == [status |-> code, raised |-> site]
\* the 1-based indices of a request body, down to the level the route takes
NoIndices == [level |-> "none", chapter_index |-> 0, scene_index |-> 0, shot_index |-> 0]
ChapterIndices(c) == [NoIndices EXCEPT !.level = "chapter", !.chapter_index = c]
SceneIndices(c, s) == [ChapterIndices(c) EXCEPT !.level = "scene", !.scene_index = s]
ShotIndices(c, s, k) == [SceneIndices(c, s) EXCEPT !.level = "shot", !.shot_index = k]

\* --------------------------------------------------- DirectorService pieces
\* _save_script: json.dump(script.model_dump()) into temp/<project>/script.json.
\* Its S3 upload (lines 380-382) is commented out, and nothing else of
\* DirectorService or of the routes writes script.json to S3: every step
\* leaves s3 as it is.
SaveScript(s) == s

\* _try_load_script: None when the file is absent, else Script(**json.load(f))
TryLoadScript(d) == d

\* Shot(**data): the number is the response's, or the model's default
ParseShot(r) == [shot_number |-> r.number, tag |-> r.tag]
\* a variant that keeps the number the response carried (as core/director.py's
\* generate_shots, which appends parse_shot_response(response) as it is)
KeepShotNumber(shot, shot_number) == shot
\* shot.shot_number = shot_number + 1
NumberShot(shot, shot_number) == [shot EXCEPT !.shot_number = shot_number + 1]

\* Scene(**json.loads(response)): shots defaults to None
ParseScene(r) == [scene_number |-> r.number, tag |-> r.tag, shots |-> NoneList]
\* scene.scene_number = scene_number + 1
NumberScene(scene, scene_number) == [scene EXCEPT !.scene_number = scene_number + 1]

\* Chapter(**chapter): scenes defaults to None
ParseChapter(r) == [chapter_number |-> r.number, tag |-> r.tag, scenes |-> NoneList]
\* for i, chapter in enumerate(chapters, 1): chapter.chapter_number = i
NumberChapters(chapters) ==
    [i \in 1..Len(chapters) |-> [chapters[i] EXCEPT !.chapter_number = i]]
\* a variant that keeps the number the response carried
KeepChapterNumber(chapter, chapter_index) == chapter
\* new_chapter.chapter_number = chapter_index + 1
NumberChapter(chapter, chapter_index) == [chapter EXCEPT !.chapter_number = chapter_index + 1]

\* the except clauses' prev_error of generate_shots (parse_shot_response turns a
\* JSONDecodeError into a ValueError, so only `except Exception` is ever taken)
ShotError(r) == "Unexpected Error"
\* the except clauses' prev_error of generate_scenes
SceneError(r) == IF r.kind = "bad_json" THEN "JSON parsing error" ELSE "Error generating scene"
\* the except clauses' prev_error of generate_chapters / regenerate_chapter
ChapterError(r) == IF r.kind = "bad_json" THEN "JSON Parse Error" ELSE "Unexpected Error"

\* variants of the scene filter: one that resets every scene it is pointed at
\* whether or not it holds shots (as core/director.py's generate_shots does), one
\* that ignores specific_scene_index
IsTargetAlways(s, a, p) ==
    /\ a.specific_chapter_index # NoIndex => p[1] = a.specific_chapter_index
    /\ a.specific_scene_index # NoIndex => p[2] = a.specific_scene_index
IsTargetAnyScene(s, a, p) ==
    /\ a.specific_chapter_index # NoIndex => p[1] = a.specific_chapter_index
    /\ Falsy(ShotsOf(s, p[1], p[2])) \/ a.regenerate

\* generate_shots: does the loop body run for the scene at p?
IsTarget(s, a, p) ==
    /\ a.specific_chapter_index # NoIndex => p[1] = a.specific_chapter_index
    /\ a.specific_scene_index # NoIndex => p[2] = a.specific_scene_index
    /\ Falsy(ShotsOf(s, p[1], p[2])) \/ a.regenerate

\* a variant that stops after the first chapter
TargetsFirstChapter(s, a, after) ==
    {p \in ScenePairs(s) : Before(after, p) /\ IsTarget(s, a, p) /\ p[1] = 0}
Targets(s, a, after) ==
    {p \in ScenePairs(s) : Before(after, p) /\ IsTarget(s, a, p)}

\* the request is over: the route returns `s`
Return(s, d) ==
    /\ script' = s
    /\ disk' = d
    /\ result' = Ok
    /\ pc' = "idle"
    /\ loop' = LoopIdle
    /\ gsargs' = NoArgs
    /\ route' = NoRoute
    /\ scenes' = <<>>

\* the request is over: an exception raised at `site` has reached the route's
\* handlers, which raise HTTPException(code); l is the loop's locals at the raise
Raise(s, code, site, l) ==
    /\ script' = s
    /\ result' = Http(code, site)
    /\ pc' = "idle"
    /\ loop' = l
    /\ route' = NoRoute
    /\ scenes' = <<>>
    /\ UNCHANGED <<disk, gsargs>>

\* the request is over before any LLM call: get_script or an index check raised
Reject(s, check) ==
    /\ script' = s
    /\ result' = check
    /\ pc' = "idle"
    /\ loop' = LoopIdle
    /\ gsargs' = NoArgs
    /\ route' = NoRoute
    /\ scenes' = <<>>
    /\ UNCHANGED disk

\* the request is over: the route saved `s` and a later step raised
SavedThenRaised(s, check) ==
    /\ script' = s
    /\ disk' = SaveScript(s)
    /\ result' = check
    /\ pc' = "idle"
    /\ loop' = LoopIdle
    /\ gsargs' = NoArgs
    /\ route' = NoRoute
    /\ scenes' = <<>>

\* generate_shots has returned `s` to the entry point `who`; d is the file
GenerateShotsReturned(s, who, d) ==
    CASE who = "regenerate_scene" ->
            \* route: await director.save_script(script); return script
            Return(s, SaveScript(s))
      [] who = "regenerate_chapter" ->
            \* route: await director.save_script(script), inside `for scene in scenes`
            /\ script' = s
            /\ disk' = SaveScript(s)
            /\ pc' = "regenerate_chapter_loop"
            /\ route' = [route EXCEPT !.scene_i = @ + 1]
            /\ loop' = LoopIdle
            /\ gsargs' = NoArgs
            /\ result' = Pending
            /\ UNCHANGED scenes
      [] OTHER ->
            \* create_script and the generate_shots route return the script unsaved
            Return(s, d)

\* a variant whose first shot of a scene gets one attempt more than max_retries
GenerateShotsFromExtra(s, a, after, who, d) ==
    LET T == Targets(s, a, after) IN
    IF T = {}
    THEN GenerateShotsReturned(s, who, d)
    ELSE LET p == First(T) IN
         /\ script' = SetShots(s, p[1], p[2], SomeList(<<>>))
         /\ pc' = "generate_shots"
         /\ gsargs' = a
         /\ loop' = [LoopIdle EXCEPT !.chapter_idx = p[1], !.scene_idx = p[2],
                                     !.number = 0,
                                     !.remaining_attempts = a.max_retries + 1]
         /\ disk' = d
         /\ result' = Pending
         /\ UNCHANGED <<route, scenes>>

\* generate_shots' loops, resumed after the scene at `after`: the next scene
\* whose body runs gets scene.shots = [] and prev_error = "N/A"
GenerateShotsFrom(s, a, after, who, d) ==
    LET T == Targets(s, a, after) IN
    IF T = {}
    THEN GenerateShotsReturned(s, who, d)
    ELSE LET p == First(T) IN
         /\ script' = SetShots(s, p[1], p[2], SomeList(<<>>))
         /\ pc' = "generate_shots"
         /\ gsargs' = a
         /\ loop' = [LoopIdle EXCEPT !.chapter_idx = p[1], !.scene_idx = p[2],
                                     !.number = 0,
                                     !.remaining_attempts = a.max_retries]
         /\ disk' = d
         /\ result' = Pending
         /\ UNCHANGED <<route, scenes>>

\* every scene whose body runs, emptied: what generate_shots leaves when no
\* while loop can run (max_retries = 0, or no shot to generate)
EmptyTargets(s, a) ==
    [s EXCEPT !.chapters =
        [ci \in 1..Len(s.chapters) |->
            [s.chapters[ci] EXCEPT !.scenes.items =
                [si \in 1..Len(s.chapters[ci].scenes.items) |->
                    IF IsTarget(s, a, <<ci - 1, si - 1>>)
                    THEN [s.chapters[ci].scenes.items[si] EXCEPT !.shots = SomeList(<<>>)]
                    ELSE s.chapters[ci].scenes.items[si]]]]]

\* generate_shots(script, max_retries, regenerate, specific_chapter_index,
\* specific_scene_index), from its first line to its first LLM call
EnterGenerateShots(s, max_retries, regenerate, specific_chapter_index, specific_scene_index, who, d) ==
    LET a == [max_retries |-> max_retries, regenerate |-> regenerate,
              specific_chapter_index |-> specific_chapter_index,
              specific_scene_index |-> specific_scene_index,
              entry_script |-> s, entry_disk |-> d]
    IN IF max_retries <= 0 \/ s.project_details.number_of_shots <= 0
       THEN GenerateShotsReturned(EmptyTargets(s, a), who, d)
       ELSE GenerateShotsFrom(s, a, StartPair, who, d)

\* a variant that writes script.json before each chapter's scenes are generated
EnterGenerateScenesSaved(s, ci) ==
    /\ script' = s
    /\ pc' = "generate_scenes"
    /\ loop' = [LoopIdle EXCEPT !.chapter_idx = ci, !.number = 0,
                                !.remaining_attempts = DefaultMaxRetries]
    /\ scenes' = <<>>
    /\ gsargs' = NoArgs
    /\ result' = Pending
    /\ disk' = SaveScript(s)
    /\ UNCHANGED route

\* generate_scenes(request, chapters, chapter) from its first line to its first
\* LLM call, for the chapter at ci (number_of_scenes >= 1: the for loop runs)
EnterGenerateScenes(s, ci) ==
    /\ script' = s
    /\ pc' = "generate_scenes"
    /\ loop' = [LoopIdle EXCEPT !.chapter_idx = ci, !.number = 0,
                                !.remaining_attempts = DefaultMaxRetries]
    /\ scenes' = <<>>
    /\ gsargs' = NoArgs
    /\ result' = Pending
    /\ UNCHANGED <<disk, route>>

\* create_script's `for chapter in chapters` loop from the chapter at ci; after
\* the last one: _save_script(script), then generate_shots(script,
\* request.number_of_shots), whose second positional parameter is max_retries
CreateScriptFrom(s, ci) ==
    IF ci < Len(s.chapters)
    THEN EnterGenerateScenes(s, ci)
    ELSE EnterGenerateShots(s, request.number_of_shots, FALSE, NoIndex, NoIndex,
                            "create_script", SaveScript(s))

\* generate_scenes has returned `scs` to the entry point `who`
GenerateScenesReturned(s, scs, who) ==
    IF who = "regenerate_chapter"
    THEN \* route: script.chapters[chapter_idx].scenes = scenes; for scene in scenes:
         /\ script' = [s EXCEPT !.chapters[route.chapter_idx + 1].scenes = SomeList(scs)]
         /\ pc' = "regenerate_chapter_loop"
         /\ route' = [route EXCEPT !.scene_i = 0]
         /\ loop' = LoopIdle
         /\ gsargs' = NoArgs
         /\ scenes' = scs
         /\ result' = Pending
         /\ UNCHANGED disk
    ELSE \* create_script: chapter.scenes = scenes, next chapter
         CreateScriptFrom(
            [s EXCEPT !.chapters[loop.chapter_idx + 1].scenes = SomeList(scs)],
            loop.chapter_idx + 1)

\* regenerate_scene's placeholder: Scene(main_story="", narration_text="",
\* scene_number=len(scenes) + 1)
PlaceholderScene(n) == [scene_number |-> n, tag |-> 0, shots |-> NoneList]

\* a variant that stores the new scene over every scene of the chapter
SpliceOverChapter(s, chapter_index, scene_index, r) ==
    LET new_scene == [NumberScene(ParseScene(r), scene_index) EXCEPT !.shots = SomeList(<<>>)]
    IN [s EXCEPT !.chapters[chapter_index + 1].scenes =
            SomeList([i \in 1..Len(ScenesOf(s, chapter_index).items) |-> new_scene])]

\* regenerate_scene, lines 449-470: the new scene numbered, its shots emptied,
\* the scenes list grown with placeholders up to scene_index, the scene stored
SpliceScene(s, chapter_index, scene_index, r) ==
    LET new_scene == [NumberScene(ParseScene(r), scene_index) EXCEPT !.shots = SomeList(<<>>)]
        old == ScenesOf(s, chapter_index).items
        grown == IF Len(old) <= scene_index
                 THEN old \o [i \in 1..(scene_index + 1 - Len(old)) |->
                                PlaceholderScene(Len(old) + i)]
                 ELSE old
    IN [s EXCEPT !.chapters[chapter_index + 1].scenes =
            SomeList([grown EXCEPT ![scene_index + 1] = new_scene])]

\* regenerate_chapter, lines 527-532
SpliceChapter(s, chapter_index, r) ==
    [s EXCEPT !.chapters[chapter_index + 1] =
        NumberChapter(ParseChapter(r), chapter_index)]

\* a variant that drops the parsed shot
DropShot(s, ci, si, r, shot_number) == s
\* what the shot loop does with a response that parsed: lines 204-207
AppendShot(s, ci, si, r, shot_number) ==
    SetShots(s, ci, si,
        SomeList(Append(ShotsOf(s, ci, si).items, NumberShot(ParseShot(r), shot_number))))

\* get_script + the index checks of the regenerate-scene route (lines
\* 1016-1029): what it raises, Ok when it goes on.  get_script raises
\* FileNotFoundError when there is no script, which `except Exception` turns
\* into a 500.
SceneRouteCheck(loaded, chapter_idx, scene_idx) ==
    IF loaded = NoScript THEN Http("http500", "get_script")
    ELSE IF loaded.chapters = <<>> THEN Http("http404", "index_check")
    ELSE IF chapter_idx >= Len(loaded.chapters) \/ chapter_idx < 0
         THEN Http("http400", "index_check")
    ELSE IF \/ Falsy(ScenesOf(loaded, chapter_idx))
            \/ scene_idx >= Len(ScenesOf(loaded, chapter_idx).items)
            \/ scene_idx < 0
         THEN Http("http400", "index_check")
    ELSE Ok

\* the checks of the regenerate-shot route (lines 959-977)
ShotRouteCheck(loaded, chapter_idx, scene_idx, shot_idx) ==
    IF SceneRouteCheck(loaded, chapter_idx, scene_idx) # Ok
    THEN SceneRouteCheck(loaded, chapter_idx, scene_idx)
    ELSE IF \/ Falsy(ShotsOf(loaded, chapter_idx, scene_idx))
            \/ shot_idx >= Len(ShotsOf(loaded, chapter_idx, scene_idx).items)
            \/ shot_idx < 0
         THEN Http("http400", "index_check")
    ELSE Ok

\* the checks of the regenerate-chapter route (lines 1106-1115): its
\* HTTPException(404) and HTTPException(400) are raised inside the try whose
\* only handler is `except Exception`, which re-raises them as 500
ChapterRouteCheck(loaded, chapter_idx) ==
    IF loaded = NoScript THEN Http("http500", "get_script")
    ELSE IF loaded.chapters = <<>> THEN Http("http500", "index_check")
    ELSE IF chapter_idx >= Len(loaded.chapters) \/ chapter_idx < 0
         THEN Http("http500", "index_check")
    ELSE Ok

\* the checks of the update-narration route (lines 1231-1239): as in the
\* regenerate-chapter route, `except Exception` re-raises its 404 and 400 as 500
NarrationRouteCheck(loaded, chapter_idx, scene_idx) ==
    IF SceneRouteCheck(loaded, chapter_idx, scene_idx) = Ok THEN Ok
    ELSE IF loaded = NoScript THEN Http("http500", "get_script")
    ELSE Http("http500", "index_check")

\* Python's list[i]: the 1-based position it reads, 0 when it raises IndexError
\* (a negative i counts from the end)
PyItem(n, i) ==
    IF 0 <= i /\ i < n THEN i + 1
    ELSE IF -n <= i /\ i < 0 THEN n + i + 1
    ELSE 0

\* update_shot_description, lines 161-165: what evaluating
\* script.chapters[chapter_idx].scenes[scene_idx].shots[shot_idx] raises (an
\* IndexError becomes 400; subscripting scenes or shots that are None is a
\* TypeError, which becomes 500), Ok when it reaches the shot
ShotLookup(loaded, chapter_idx, scene_idx, shot_idx) ==
    LET c == PyItem(Len(loaded.chapters), chapter_idx)
        scs == loaded.chapters[c].scenes
        s == PyItem(Len(scs.items), scene_idx)
        shs == scs.items[s].shots
        k == PyItem(Len(shs.items), shot_idx)
    IN IF c = 0 THEN Http("http400", "index_error")
       ELSE IF scs.isNone THEN Http("http500", "type_error")
       ELSE IF s = 0 THEN Http("http400", "index_error")
       ELSE IF shs.isNone THEN Http("http500", "type_error")
       ELSE IF k = 0 THEN Http("http400", "index_error")
       ELSE Ok

\* the shot that lookup reaches, given the text of request n
SetShotText(loaded, chapter_idx, scene_idx, shot_idx, n) ==
    LET c == PyItem(Len(loaded.chapters), chapter_idx)
        s == PyItem(Len(loaded.chapters[c].scenes.items), scene_idx)
        k == PyItem(Len(loaded.chapters[c].scenes.items[s].shots.items), shot_idx)
    IN [loaded EXCEPT !.chapters[c].scenes.items[s].shots.items[k].tag = n]

\* chapter.scenes[scene_idx].narration_text = request.narration_text
SetNarration(loaded, chapter_idx, scene_idx, n) ==
    [loaded EXCEPT !.chapters[chapter_idx + 1].scenes.items[scene_idx + 1].tag = n]

\* The Script a client posts to /api/generate_shots: the stored one, possibly
\* with the shots of one scene cut to its first k (0 < k < len)
Truncated(s, p, k) ==
    SetShots(s, p[1], p[2], SomeList(SubSeq(ShotsOf(s, p[1], p[2]).items, 1, k)))
ClientScripts(d) ==
    {d} \cup {Truncated(d, p, k) :
                p \in {q \in ScenePairs(d) : Len(ShotsOf(d, q[1], q[2]).items) > 1},
                k \in 1..(MaxShots - 1)}

\* ----------------------------------------------------------------- prompts
\* a variant of _format_prompt that takes no "script" keyword
FormatPromptNoScript(s, prev_error) ==
    [complete_script |-> NoScript, previous_generation_error |-> prev_error]
\* _format_prompt(template, script=s, previous_generation_error=prev_error, ...):
\* kwargs["complete_script"] = json.dumps(kwargs["script"].model_dump())
FormatPrompt(s, prev_error) ==
    [complete_script |-> s, previous_generation_error |-> prev_error]
\* prompt_template.format(**kwargs) for the templates of src/prompts: the text
\* holds the complete script and the previous generation error
Template(kwargs) == kwargs
\* invoke_llm(prompt, prev_errors): prompt = f"{prompt}\n\nPrevious Errors: {prev_errors}"
InvokeLlmPrompt(text, prev_errors) ==
    [complete_script |-> text.complete_script,
     previous_generation_error |-> text.previous_generation_error,
     prev_errors |-> prev_errors]
\* the prompt a loop sends for the Script context s with its prev_error
PromptFor(s, prev_error) == InvokeLlmPrompt(Template(FormatPrompt(s, prev_error)), prev_error)
NoPrompt == InvokeLlmPrompt(Template(FormatPrompt(NoScript, "N/A")), "N/A")

\* generate_scenes' temp_script = Script(chapters=chapters, project_details=
\* request): create_script passes previous_chapters, the chapters before the
\* current one; the regenerate-chapter route passes script.chapters
TempScript(s, who, ci) ==
    IF who = "create_script"
    THEN [s EXCEPT !.chapters = SubSeq(s.chapters, 1, ci)]
    ELSE s

\* ------------------------------------------------------------ two processes
\* script.json as create_script's _save_script leaves it for a run whose
\* responses were all valid: chapters and scenes of request 1, no shots yet
CreatedScript(details) ==
    [project_details |-> details,
     chapters |->
        [c \in 1..details.number_of_chapters |->
            [chapter_number |-> c, tag |-> 1,
             scenes |-> SomeList([s \in 1..details.number_of_scenes |->
                            [scene_number |-> s, tag |-> 1, shots |-> NoneList]])]]]

\* The media files of a project live under temp/<project>/ at a path built
\* from the coordinate: chapter_c/scene_s/shot_k_opening.png, ..._closing.png,
\* shot_k_video.mp4 (the video services), shot_k.mp4 (core VideoGenerator),
\* background_music.mp3 and narration.wav (scene level: shot 0 here).
ShotKinds == {"opening.png", "closing.png", "video.mp4", "shot.mp4"}
SceneKinds == {"background_music.mp3", "narration.wav"}
Paths ==
    {<<k, c, s, n>> : k \in ShotKinds, c \in 1..MaxChapters, s \in 1..MaxScenes,
                      n \in 1..MaxShots}
    \cup {<<k, c, s, 0>> : k \in SceneKinds, c \in 1..MaxChapters, s \in 1..MaxScenes}
NoPath == <<"none", 0, 0, 0>>

\* a file: the request that wrote it, and whether the write ran to its end
NoBlob == [by |-> 0, complete |-> FALSE]
Blob(n) == [by |-> n, complete |-> TRUE]
BrokenBlob(n) == [by |-> n, complete |-> FALSE]
\* Path.exists()
Exists(b, p) == b[p] # NoBlob

\* the coordinates the media routes are called with
AdapterShots == {<<1, 1, n>> : n \in 1..MaxShots}
ImagePaths == {<<k, t[1], t[2], t[3]>> : k \in {"opening.png", "closing.png"}, t \in AdapterShots}
\* BaseVideoService.get_shot_path / get_shot_image_path
GetShotPath(t) == <<"video.mp4", t[1], t[2], t[3]>>
GetShotImagePath(t, type_str) == <<type_str, t[1], t[2], t[3]>>
MusicPaths == {<<"background_music.mp3", t[1], t[2], 0>> : t \in AdapterShots}
\* ImageService.set_model accepts these two names and raises on any other
KnownModels == {"flux_ultra_model", "flux_dev_realism"}
ModelTypes == KnownModels \cup {"other"}
\* what the generation backend does: it delivers the file, returns nothing,
\* raises, or the transfer breaks after the file was opened for writing
BackendOutcomes == {"ok", "empty", "error", "broken"}

NoGenerate ==
    [adapter |-> "none", path |-> NoPath, overwrite |-> FALSE, before |-> NoBlob,
     after |-> NoBlob, success |-> FALSE, local_path |-> NoPath, backend |-> FALSE,
     raised |-> FALSE]

\* core.* batches take a models.Script: chapters, their scenes (None until
\* generated), their shots (None until generated)
BatchScript(details, depth, stills) ==
    [c \in 1..details.number_of_chapters |->
        [chapter_number |-> c,
         scenes |->
            IF depth = "chapters" THEN NoneList
            ELSE SomeList([s \in 1..details.number_of_scenes |->
                    [scene_number |-> s,
                     shots |->
                        IF depth = "scenes" THEN NoneList
                        ELSE SomeList([k \in 1..details.number_of_shots |->
                                [shot_number |-> k, still_image |-> k \in stills]])]])]]
Depths == {"chapters", "scenes", "shots"}
StillSets == {{}, {1}}

BatchShot(s, t) == s[t[1]].scenes.items[t[2]].shots.items[t[3]]
\* the positions the nested loops visit, in loop order
ShotPositions(s) ==
    {t \in (1..Len(s)) \X (1..MaxScenes) \X (1..MaxShots) :
        /\ t[2] <= Len(s[t[1]].scenes.items)
        /\ t[3] <= Len(s[t[1]].scenes.items[t[2]].shots.items)}
ScenePositions(s) ==
    {t \in (1..Len(s)) \X (1..MaxScenes) \X {0} : t[2] <= Len(s[t[1]].scenes.items)}
LoopBefore(p, q) ==
    \/ p[1] < q[1]
    \/ p[1] = q[1] /\ p[2] < q[2]
    \/ p[1] = q[1] /\ p[2] = q[2] /\ p[3] <= q[3]
RECURSIVE InLoopOrder(_)
InLoopOrder(S) ==
    IF S = {} THEN <<>>
    ELSE LET m == CHOOSE p \in S : \A q \in S : LoopBefore(p, q)
         IN <<m>> \o InLoopOrder(S \ {m})

\* generate_images_for_script names the files by enumerate() index, the video
\* and audio batches by the nodes' own numbers
OpeningImagePath(t) == <<"opening.png", t[1], t[2], t[3]>>
ShotVideoPath(s, t) ==
    <<"shot.mp4", s[t[1]].chapter_number, s[t[1]].scenes.items[t[2]].scene_number,
      BatchShot(s, t).shot_number>>
ShotFramePath(s, t, which) ==
    <<which, s[t[1]].chapter_number, s[t[1]].scenes.items[t[2]].scene_number,
      BatchShot(s, t).shot_number>>
NarrationPath(s, t) ==
    <<"narration.wav", s[t[1]].chapter_number, s[t[1]].scenes.items[t[2]].scene_number, 0>>

BatchIdle ==
    [pc |-> "idle", script |-> <<>>, todo |-> <<>>, attempted |-> {}, raised |-> {},
     failed |-> <<>>, last |-> "none"]

\* ------------------------------------------------------------ RunwayML task
\* task.status as client.tasks.retrieve reports it; the polling loop leaves
\* only on the first two
TaskStatuses == {"SUCCEEDED", "FAILED", "PENDING", "THROTTLED", "RUNNING", "CANCELLED"}
\* no generate_video call has reached image_to_video.create
NoTask == [pc |-> "none", shot |-> <<0, 0, 0>>, overwrite |-> FALSE, by |-> 0,
           status |-> "none"]

\* ------------------------------------------------------- service instances
\* the project_name of a request's URL
ProjectNames == {"My Film", "my_film", "other"}
\* AWSService.__init__: project_path = project_name.lower().replace(' ', '_')
ProjectPath(project_name) == IF project_name = "other" THEN "other" ELSE "my_film"
\* AWSService(project_name=...): temp_dir = Path("temp") / project_path
AWSService(project_name) == [temp_dir |-> ProjectPath(project_name)]

VideoProviders == {"replicate", "runwayml"}
\* no object of the class exists yet
NoDir == "none"
\* VideoServiceFactory._instances = {}, ImageService._instance = None,
\* BackgroundMusicService._instance = None: per service, the temp_dir its
\* object holds
NoInstances == [replicate |-> NoDir, runwayml |-> NoDir, image |-> NoDir, music |-> NoDir]
NoServed == [service |-> "none", project_name |-> "none", temp_dir |-> NoDir]

\* VideoServiceFactory.create_video_service(provider, aws_service): a new
\* service_class(aws_service) only `if provider not in cls._instances`
CreateVideoService(inst, provider, aws_service) ==
    IF inst[provider] = NoDir
    THEN [inst EXCEPT ![provider] = aws_service.temp_dir]
    ELSE inst
\* ImageService(aws_service=...): __new__ returns the one _instance, __init__
\* returns at once `if self._initialized`
ImageServiceInit(inst, aws_service) ==
    IF inst.image = NoDir
    THEN [inst EXCEPT !.image = aws_service.temp_dir]
    ELSE inst
\* BackgroundMusicService(aws_service=...): __new__ returns the one _instance,
\* __init__ sets temp_dir from aws_service before it looks at _initialized
BackgroundMusicServiceInit(inst, aws_service) ==
    [inst EXCEPT !.music = aws_service.temp_dir]

\* ------------------------------------------------------------------ ghosts
StartRequest(op) ==
    /\ reqNo' = reqNo + 1
    /\ caller' = op
    /\ calls' = {}
    /\ nodeCalls' = 0
    /\ lastNode' = NoNode
    /\ lastResp' = NoResp
    /\ prompt' = NoPrompt
    /\ disk0' = disk
    /\ UNCHANGED <<request, s3, parked, blobs, call, batch, instances, served, files, task>>

\* an LLM call was issued for `node` (<<kind, chapter_idx, scene_idx, number>>)
\* with the prompt pr, and r came back
Called(node, pr, r) ==
    /\ prompt' = pr
    /\ calls' = calls \cup {node}
    /\ nodeCalls' = IF node = lastNode THEN nodeCalls + 1 ELSE 1
    /\ lastNode' = node
    /\ lastResp' = [kind |-> r.kind, number |-> r.number, tag |-> r.tag]
    /\ UNCHANGED <<request, s3, reqNo, caller, disk0, script0, args, parked, blobs, call, batch,
                   instances, served, files, task>>

NoCall == UNCHANGED <<request, s3, reqNo, caller, calls, nodeCalls, lastNode, lastResp, prompt,
                      disk0, script0, args, parked, blobs, call, batch, instances, served, files, task>>

\* what a server process holds of the request it is serving: the locals of
\* the route and of DirectorService, and this model's record of its LLM calls
IdleProcess ==
    [script |-> NoScript, pc |-> "idle", caller |-> "none",
     result |-> [status |-> "none", raised |-> "none"], gsargs |-> NoArgs,
     loop |-> LoopIdle, route |-> NoRoute, scenes |-> <<>>, calls |-> {},
     nodeCalls |-> 0, lastNode |-> NoNode, lastResp |-> NoResp, prompt |-> NoPrompt,
     disk0 |-> NoScript, script0 |-> NoScript, args |-> NoIndices]

\* ----------------------------------------------------------------- actions
Init ==
    /\ request \in ProjectDetailsSet
    /\ disk = NoScript
    /\ s3 = NoScript
    /\ script = NoScript
    /\ pc = "idle"
    /\ caller = "none"
    /\ result = [status |-> "none", raised |-> "none"]
    /\ reqNo = 0
    /\ gsargs = NoArgs
    /\ loop = LoopIdle
    /\ route = NoRoute
    /\ scenes = <<>>
    /\ calls = {}
    /\ nodeCalls = 0
    /\ lastNode = NoNode
    /\ lastResp = NoResp
    /\ prompt = NoPrompt
    /\ disk0 = NoScript
    /\ script0 = NoScript
    /\ args = NoIndices
    /\ parked = IdleProcess
    /\ blobs = [p \in Paths |-> NoBlob]
    /\ call = NoGenerate
    /\ batch = BatchIdle
    /\ instances = NoInstances
    /\ served = NoServed
    /\ files = {}
    /\ task = NoTask

\* a route starts: nothing of the last request's locals is left
Fresh ==
    /\ loop' = LoopIdle
    /\ gsargs' = NoArgs
    /\ scenes' = <<>>
    /\ result' = Pending

\* POST /api/generate-script -> DirectorService.create_script, up to its first
\* LLM call
GenerateScriptRoute ==
    /\ pc = "idle"
    /\ reqNo < MaxRequests
    /\ StartRequest("create_script")
    /\ args' = NoIndices
    /\ LET loaded == TryLoadScript(disk) IN
       /\ script0' = loaded
       /\ IF loaded # NoScript
          THEN \* script = await self.generate_shots(script, request.number_of_shots)
               EnterGenerateShots(loaded, request.number_of_shots, FALSE, NoIndex,
                                  NoIndex, "create_script", disk)
          ELSE /\ script' = [project_details |-> request, chapters |-> <<>>]
               /\ pc' = "generate_chapters"
               /\ Fresh
               /\ route' = NoRoute
               /\ UNCHANGED disk

\* generate_chapters: one iteration of `for attempt in range(max_retries)`
GenerateChaptersCall ==
    /\ pc = "generate_chapters"
    /\ \E r \in Responses(1, 0..MaxChapters) :
        /\ Called(<<"chapters", 0, 0, 0>>,
                  PromptFor([script EXCEPT !.chapters = <<>>], loop.prev_error), r)
        /\ IF r.kind = "valid"
           THEN CreateScriptFrom(
                    [script EXCEPT !.chapters =
                        NumberChapters([i \in 1..r.count |-> ParseChapter(r)])], 0)
           ELSE IF loop.attempt = DefaultMaxRetries - 1
                THEN \* raise ValueError -> the route's HTTPException(500)
                     Raise(script, "http500", "generate_chapters",
                           [loop EXCEPT !.prev_error = ChapterError(r)])
                ELSE /\ loop' = [loop EXCEPT !.attempt = @ + 1,
                                             !.prev_error = ChapterError(r)]
                     /\ UNCHANGED <<script, disk, result, pc, gsargs, route, scenes>>

\* generate_scenes: one iteration of `while remaining_attempts > 0 and not
\* scene_generated`
GenerateScenesCall ==
    /\ pc = "generate_scenes"
    /\ \E r \in Responses(loop.number + 1, {0}) :
        /\ Called(<<"scene", loop.chapter_idx, loop.number, 0>>,
                  PromptFor(TempScript(script, caller, loop.chapter_idx), loop.prev_error), r)
        /\ IF r.kind = "valid"
           THEN LET scs == Append(scenes, NumberScene(ParseScene(r), loop.number)) IN
                IF loop.number + 1 < script.project_details.number_of_scenes
                THEN /\ scenes' = scs
                     /\ loop' = [loop EXCEPT !.number = @ + 1,
                                             !.remaining_attempts = DefaultMaxRetries]
                     /\ UNCHANGED <<script, disk, result, pc, gsargs, route>>
                ELSE GenerateScenesReturned(script, scs, caller)
           ELSE IF loop.remaining_attempts - 1 = 0
                THEN \* raise Exception -> the route's HTTPException(500)
                     Raise(script, "http500", "generate_scenes",
                           [loop EXCEPT !.remaining_attempts = 0,
                                        !.prev_error = SceneError(r)])
                ELSE /\ loop' = [loop EXCEPT !.remaining_attempts = @ - 1,
                                             !.prev_error = SceneError(r)]
                     /\ UNCHANGED <<script, disk, result, pc, gsargs, route, scenes>>

\* generate_shots: one iteration of `while remaining_attempts > 0 and not
\* shot_generated`
GenerateShotsCall ==
    /\ pc = "generate_shots"
    /\ \E r \in Responses(loop.number + 1, {0}) :
        /\ Called(<<"shot", loop.chapter_idx, loop.scene_idx, loop.number>>,
                  PromptFor(script, loop.prev_error), r)
        /\ IF r.kind = "valid"
           THEN LET s1 == AppendShot(script, loop.chapter_idx, loop.scene_idx, r, loop.number) IN
                IF loop.number + 1 < script.project_details.number_of_shots
                THEN /\ script' = s1
                     /\ loop' = [loop EXCEPT !.number = @ + 1,
                                             !.remaining_attempts = gsargs.max_retries]
                     /\ UNCHANGED <<disk, result, pc, gsargs, route, scenes>>
                ELSE GenerateShotsFrom(s1, gsargs, <<loop.chapter_idx, loop.scene_idx>>,
                                       caller, disk)
           ELSE IF loop.remaining_attempts - 1 = 0
                THEN \* raise Exception -> the route's HTTPException(500)
                     Raise(script, "http500", "generate_shots",
                           [loop EXCEPT !.remaining_attempts = 0,
                                        !.prev_error = ShotError(r)])
                ELSE /\ loop' = [loop EXCEPT !.remaining_attempts = @ - 1,
                                             !.prev_error = ShotError(r)]
                     /\ UNCHANGED <<script, disk, result, pc, gsargs, route, scenes>>

\* POST /api/generate_shots/{project_name}: director.generate_shots(script)
GenerateShotsRoute ==
    /\ pc = "idle"
    /\ reqNo < MaxRequests
    /\ disk # NoScript
    /\ StartRequest("generate_shots")
    /\ args' = NoIndices
    /\ \E body \in ClientScripts(disk) :
        /\ script0' = body
        /\ EnterGenerateShots(body, DefaultMaxRetries, FALSE, NoIndex, NoIndex,
                              "generate_shots", disk)

\* POST /api/regenerate-scene/{project_name}, up to regenerate_scene's LLM call;
\* request.chapter_index and request.scene_index are 1-based
RegenerateSceneRoute ==
    /\ pc = "idle"
    /\ reqNo < MaxRequests
    /\ StartRequest("regenerate_scene")
    /\ \E chapter_index \in 0..(MaxChapters + 1), scene_index \in 0..(MaxScenes + 1) :
        LET loaded == TryLoadScript(disk)
            chapter_idx == chapter_index - 1
            scene_idx == scene_index - 1
            check == SceneRouteCheck(loaded, chapter_idx, scene_idx)
        IN /\ script0' = loaded
           /\ args' = SceneIndices(chapter_index, scene_index)
           /\ IF check # Ok
              THEN Reject(loaded, check)
              ELSE /\ script' = loaded
                   /\ pc' = "regenerate_scene"
                   /\ route' = [NoRoute EXCEPT !.chapter_idx = chapter_idx,
                                               !.scene_idx = scene_idx]
                   /\ Fresh
                   /\ UNCHANGED disk

\* DirectorService.regenerate_scene: its single LLM call, the splice, and the
\* entry into generate_shots(script, number_of_shots, regenerate=True,
\* specific_chapter_index, specific_scene_index), whose second positional
\* parameter is max_retries
RegenerateSceneCall ==
    /\ pc = "regenerate_scene"
    /\ \E r \in Responses(route.scene_idx + 1, {0}) :
        /\ Called(<<"regenerate_scene", route.chapter_idx, route.scene_idx, 0>>,
                  PromptFor(script, "N/A"), r)
        /\ IF r.kind = "valid"
           THEN EnterGenerateShots(
                    SpliceScene(script, route.chapter_idx, route.scene_idx, r),
                    script.project_details.number_of_shots, TRUE,
                    route.chapter_idx, route.scene_idx, caller, disk)
           ELSE \* raise ValueError -> the route's HTTPException(500)
                Raise(script, "http500", "regenerate_scene", loop)

\* DirectorService.regenerate_scene(script, chapter_index, scene_index) called
\* with the stored Script and a scene_index at or beyond the end of the
\* chapter's scene list (the case its `while len(scenes) <= scene_index` loop
\* exists for, which the route's checks refuse), up to its LLM call
RegenerateSceneBeyond ==
    /\ pc = "idle"
    /\ reqNo < MaxRequests
    /\ disk # NoScript
    /\ StartRequest("regenerate_scene_beyond")
    /\ LET loaded == TryLoadScript(disk) IN
       \E chapter_index \in 0..(Len(loaded.chapters) - 1) :
       \E scene_index \in Len(ScenesOf(loaded, chapter_index).items)..MaxScenes :
           /\ script0' = loaded
           /\ args' = NoIndices
           /\ script' = loaded
           /\ pc' = "regenerate_scene"
           /\ route' = [NoRoute EXCEPT !.chapter_idx = chapter_index,
                                       !.scene_idx = scene_index]
           /\ Fresh
           /\ UNCHANGED disk

\* POST /api/regenerate-chapter/{project_name}, up to regenerate_chapter's
\* first LLM call
RegenerateChapterRoute ==
    /\ pc = "idle"
    /\ reqNo < MaxRequests
    /\ StartRequest("regenerate_chapter")
    /\ \E chapter_index \in 0..(MaxChapters + 1) :
        LET loaded == TryLoadScript(disk)
            chapter_idx == chapter_index - 1
            check == ChapterRouteCheck(loaded, chapter_idx)
        IN /\ script0' = loaded
           /\ args' = ChapterIndices(chapter_index)
           /\ IF check # Ok
              THEN Reject(loaded, check)
              ELSE /\ script' = loaded
                   /\ pc' = "regenerate_chapter"
                   /\ route' = [NoRoute EXCEPT !.chapter_idx = chapter_idx]
                   /\ Fresh
                   /\ UNCHANGED disk

\* DirectorService.regenerate_chapter: one iteration of `for attempt in
\* range(max_retries)`
RegenerateChapterCall ==
    /\ pc = "regenerate_chapter"
    /\ \E r \in Responses(route.chapter_idx + 1, {0}) :
        /\ Called(<<"chapter", route.chapter_idx, 0, 0>>,
                  PromptFor(script, loop.prev_error), r)
        /\ IF r.kind = "valid"
           THEN \* script.chapters[chapter_index] = new_chapter; return script
                /\ script' = SpliceChapter(script, route.chapter_idx, r)
                /\ pc' = "regenerate_chapter_returned"
                /\ UNCHANGED <<disk, result, loop, gsargs, route, scenes>>
           ELSE IF loop.attempt = DefaultMaxRetries - 1
                THEN \* raise ValueError -> the route's HTTPException(500)
                     Raise(script, "http500", "regenerate_chapter",
                           [loop EXCEPT !.prev_error = ChapterError(r)])
                ELSE /\ loop' = [loop EXCEPT !.attempt = @ + 1,
                                             !.prev_error = ChapterError(r)]
                     /\ UNCHANGED <<script, disk, result, pc, gsargs, route, scenes>>

\* the route after regenerate_chapter returned (line 1124): generate_scenes(
\* script.project_details, script.chapters, script.chapters[chapter_idx]) up to
\* its first LLM call
RegenerateChapterScenes ==
    /\ pc = "regenerate_chapter_returned"
    /\ NoCall
    /\ EnterGenerateScenes(script, route.chapter_idx)

\* the route's `for scene in scenes` (lines 1126-1131): generate_shots(script,
\* specific_scene_index=scene.scene_number-1, specific_chapter_index=chapter_idx)
\* up to its first LLM call; after the last scene, return script
RegenerateChapterLoop ==
    /\ pc = "regenerate_chapter_loop"
    /\ NoCall
    /\ IF route.scene_i < Len(scenes)
       THEN EnterGenerateShots(script, DefaultMaxRetries, FALSE, route.chapter_idx,
                               scenes[route.scene_i + 1].scene_number - 1,
                               "regenerate_chapter", disk)
       ELSE Return(script, disk)

\* POST /api/regenerate-shot/{project_name}: get_script, the index checks, then
\* director.regenerate_shot(...), a method DirectorService does not define:
\* the AttributeError reaches `except Exception` -> HTTPException(500)
RegenerateShotRoute ==
    /\ pc = "idle"
    /\ reqNo < MaxRequests
    /\ StartRequest("regenerate_shot")
    /\ \E chapter_index \in 0..(MaxChapters + 1), scene_index \in 0..(MaxScenes + 1),
          shot_index \in 0..(MaxShots + 1) :
        LET loaded == TryLoadScript(disk)
            check == ShotRouteCheck(loaded, chapter_index - 1, scene_index - 1,
                                    shot_index - 1)
        IN /\ script0' = loaded
           /\ args' = ShotIndices(chapter_index, scene_index, shot_index)
           /\ IF check # Ok
              THEN Reject(loaded, check)
              ELSE Reject(loaded, Http("http500", "regenerate_shot"))

\* PUT /api/update-shot-description/{project_name}: the indices are only
\* evaluated by the subscripts of the branch update_data["action"] selects
UpdateShotDescriptionRoute ==
    /\ pc = "idle"
    /\ reqNo < MaxRequests
    /\ StartRequest("update_shot_description")
    /\ \E chapter_index \in 0..(MaxChapters + 1), scene_index \in 0..(MaxScenes + 1),
          shot_index \in 0..(MaxShots + 1),
          action \in {"director_instructions", "other"} :
        LET loaded == TryLoadScript(disk)
            check == ShotLookup(loaded, chapter_index - 1, scene_index - 1, shot_index - 1)
            updated == SetShotText(loaded, chapter_index - 1, scene_index - 1,
                                   shot_index - 1, reqNo + 1)
        IN /\ script0' = loaded
           /\ args' = ShotIndices(chapter_index, scene_index, shot_index)
           /\ IF loaded = NoScript
              THEN Reject(loaded, Http("http500", "get_script"))
              ELSE IF action = "other"
              THEN Return(loaded, SaveScript(loaded))
              ELSE IF check # Ok
              THEN Reject(loaded, check)
              ELSE Return(updated, SaveScript(updated))

\* PUT /api/update-narration/{project_name}: the checks, the new text, the
\* save, then VoiceService.update_narration, whose failure raises after the save
UpdateNarrationRoute ==
    /\ pc = "idle"
    /\ reqNo < MaxRequests
    /\ StartRequest("update_narration")
    /\ \E chapter_number \in 0..(MaxChapters + 1), scene_number \in 0..(MaxScenes + 1),
          success \in BOOLEAN :
        LET loaded == TryLoadScript(disk)
            check == NarrationRouteCheck(loaded, chapter_number - 1, scene_number - 1)
            updated == SetNarration(loaded, chapter_number - 1, scene_number - 1, reqNo + 1)
        IN /\ script0' = loaded
           /\ args' = SceneIndices(chapter_number, scene_number)
           /\ IF check # Ok
              THEN Reject(loaded, check)
              ELSE IF success
              THEN Return(updated, SaveScript(updated))
              ELSE SavedThenRaised(updated, Http("http500", "update_narration"))

Next ==
    \/ GenerateScriptRoute
    \/ GenerateChaptersCall
    \/ GenerateScenesCall
    \/ GenerateShotsCall
    \/ GenerateShotsRoute
    \/ RegenerateSceneRoute
    \/ RegenerateSceneCall
    \/ RegenerateSceneBeyond
    \/ RegenerateChapterRoute
    \/ RegenerateChapterCall
    \/ RegenerateChapterScenes
    \/ RegenerateChapterLoop
    \/ RegenerateShotRoute
    \/ UpdateShotDescriptionRoute
    \/ UpdateNarrationRoute

Spec == Init /\ [][Next]_vars

\* the steps of a request that is running: each is the continuation of an
\* awaited invoke_llm (or the next statement of the route), which the event
\* loop runs once the call has returned a response or raised
RequestStep ==
    \/ GenerateChaptersCall
    \/ GenerateScenesCall
    \/ GenerateShotsCall
    \/ RegenerateSceneCall
    \/ RegenerateChapterCall
    \/ RegenerateChapterScenes
    \/ RegenerateChapterLoop

\* the routes that generate nodes, and the steps of their requests
GenerationNext ==
    \/ GenerateScriptRoute
    \/ GenerateShotsRoute
    \/ RegenerateSceneRoute
    \/ RegenerateChapterRoute
    \/ GenerateChaptersCall
    \/ GenerateScenesCall
    \/ GenerateShotsCall
    \/ RegenerateSceneCall
    \/ RegenerateChapterCall
    \/ RegenerateChapterScenes
    \/ RegenerateChapterLoop

\* the generation routes when every LLM call returns: a running request is
\* not left suspended for ever
LiveSpec == Init /\ [][GenerationNext]_vars /\ WF_vars(RequestStep)

\* -------------------------------------------------------- concurrent requests
\* No route takes a lock and each request works on the Script it loaded.  Two
\* server processes (uvicorn workers) on the same temp/ directory run their
\* requests in any interleaving of their steps; the variables hold the process
\* that takes the next step and `parked` holds the other.  (Inside one
\* process the routes await only coroutines that never suspend, so a request
\* runs from get_script to save_script before the next one starts: Spec.)
Switch ==
    /\ pc # "idle" \/ parked.pc # "idle"
    /\ parked' = [script |-> script, pc |-> pc, caller |-> caller, result |-> result,
                  gsargs |-> gsargs, loop |-> loop, route |-> route, scenes |-> scenes,
                  calls |-> calls, nodeCalls |-> nodeCalls, lastNode |-> lastNode,
                  lastResp |-> lastResp, prompt |-> prompt, disk0 |-> disk0,
                  script0 |-> script0, args |-> args]
    /\ script' = parked.script
    /\ pc' = parked.pc
    /\ caller' = parked.caller
    /\ result' = parked.result
    /\ gsargs' = parked.gsargs
    /\ loop' = parked.loop
    /\ route' = parked.route
    /\ scenes' = parked.scenes
    /\ calls' = parked.calls
    /\ nodeCalls' = parked.nodeCalls
    /\ lastNode' = parked.lastNode
    /\ lastResp' = parked.lastResp
    /\ prompt' = parked.prompt
    /\ disk0' = parked.disk0
    /\ script0' = parked.script0
    /\ args' = parked.args
    /\ UNCHANGED <<request, disk, s3, reqNo, blobs, call, batch, instances, served, files, task>>

\* a project whose script request 1 created, and two idle processes
RaceInit ==
    /\ request \in ProjectDetailsSet
    /\ disk = CreatedScript(request)
    /\ s3 = NoScript
    /\ script = NoScript
    /\ pc = "idle"
    /\ caller = "none"
    /\ result = [status |-> "none", raised |-> "none"]
    /\ reqNo = 1
    /\ gsargs = NoArgs
    /\ loop = LoopIdle
    /\ route = NoRoute
    /\ scenes = <<>>
    /\ calls = {}
    /\ nodeCalls = 0
    /\ lastNode = NoNode
    /\ lastResp = NoResp
    /\ prompt = NoPrompt
    /\ disk0 = NoScript
    /\ script0 = NoScript
    /\ args = NoIndices
    /\ parked = IdleProcess
    /\ blobs = [p \in Paths |-> NoBlob]
    /\ call = NoGenerate
    /\ batch = BatchIdle
    /\ instances = NoInstances
    /\ served = NoServed
    /\ files = {}
    /\ task = NoTask

RaceNext ==
    \/ RegenerateSceneRoute
    \/ RegenerateSceneCall
    \/ GenerateShotsCall
    \/ Switch

RaceSpec == RaceInit /\ [][RaceNext]_vars

\* ------------------------------------------------------------- direct calls
\* DirectorService.generate_shots(script, max_retries, regenerate) called on
\* the stored Script with a retry budget of the caller's choice, 0 included,
\* up to its first LLM call
GenerateShotsDirect ==
    /\ pc = "idle"
    /\ reqNo < MaxRequests
    /\ disk # NoScript
    /\ StartRequest("generate_shots_direct")
    /\ args' = NoIndices
    /\ \E max_retries \in 0..MaxPassedRetries, regenerate \in BOOLEAN :
        LET loaded == TryLoadScript(disk) IN
        /\ script0' = loaded
        /\ EnterGenerateShots(loaded, max_retries, regenerate, NoIndex, NoIndex,
                              "generate_shots_direct", disk)

DirectNext ==
    \/ GenerateShotsDirect
    \/ GenerateShotsCall

\* generate_shots called directly on the document create_script has saved
DirectSpec == RaceInit /\ [][DirectNext]_vars

\* ------------------------------------------------------------ media actions
\* what the media operations leave alone
scripted == <<request, disk, s3, script, pc, caller, result, gsargs, loop, route, scenes,
              calls, nodeCalls, lastNode, lastResp, prompt, disk0, script0, args,
              parked>>
pipeline == <<scripted, instances, served, files, task>>

\* an adapter call returns (success, local_path) or raises; `after` is the
\* file it leaves at the path
Generated(adapter, p, overwrite, success, backend, raised, after) ==
    /\ call' = [adapter |-> adapter, path |-> p, overwrite |-> overwrite,
                before |-> blobs[p], after |-> after, success |-> success,
                local_path |-> IF success THEN p ELSE NoPath, backend |-> backend,
                raised |-> raised]
    /\ blobs' = [blobs EXCEPT ![p] = after]
    /\ reqNo' = reqNo + 1
    /\ UNCHANGED <<batch, pipeline>>

\* the file a streamed download leaves
Download(out, p) ==
    IF out = "ok" THEN Blob(reqNo + 1)
    ELSE IF out = "broken" THEN BrokenBlob(reqNo + 1)
    ELSE blobs[p]

\* ImageService.generate_image: the response is fetched whole before the file
\* is opened, so a failure leaves the file as it was
GenerateImage ==
    /\ batch.pc = "idle"
    /\ reqNo < MaxRequests
    /\ \E p \in ImagePaths, overwrite_image \in BOOLEAN, model_type \in ModelTypes,
          out \in BackendOutcomes \ {"broken"} :
          IF model_type \notin KnownModels
          THEN \* set_model raises ValueError: return False, None
               Generated("image", p, overwrite_image, FALSE, FALSE, FALSE, blobs[p])
          ELSE IF ~overwrite_image /\ Exists(blobs, p)
          THEN Generated("image", p, overwrite_image, TRUE, FALSE, FALSE, blobs[p])
          ELSE Generated("image", p, overwrite_image, out = "ok", TRUE, FALSE,
                         Download(out, p))

\* BackgroundMusicService.generate_music
GenerateMusic ==
    /\ batch.pc = "idle"
    /\ reqNo < MaxRequests
    /\ \E p \in MusicPaths, overwrite \in BOOLEAN, out \in BackendOutcomes :
          IF ~overwrite /\ Exists(blobs, p)
          THEN Generated("music", p, overwrite, TRUE, FALSE, FALSE, blobs[p])
          ELSE Generated("music", p, overwrite, out = "ok", TRUE, FALSE, Download(out, p))

\* ReplicateVideoService.generate_video: every failure past the frame check
\* is re-raised
ReplicateGenerateVideo ==
    /\ batch.pc = "idle"
    /\ reqNo < MaxRequests
    /\ \E t \in AdapterShots, overwrite \in BOOLEAN, out \in BackendOutcomes :
          LET p == GetShotPath(t) IN
          IF ~overwrite /\ Exists(blobs, p)
          THEN Generated("replicate", p, overwrite, TRUE, FALSE, FALSE, blobs[p])
          ELSE IF ~Exists(blobs, GetShotImagePath(t, "opening.png"))
          THEN Generated("replicate", p, overwrite, FALSE, FALSE, FALSE, blobs[p])
          ELSE Generated("replicate", p, overwrite, out = "ok", TRUE, out # "ok",
                         Download(out, p))

\* RunwayMLVideoService.generate_video: the existence check is commented out
RunwayGenerateVideo ==
    /\ batch.pc = "idle"
    /\ reqNo < MaxRequests
    /\ \E t \in AdapterShots, overwrite \in BOOLEAN, out \in BackendOutcomes :
          LET p == GetShotPath(t) IN
          IF ~Exists(blobs, GetShotImagePath(t, "opening.png"))
          THEN Generated("runwayml", p, overwrite, FALSE, FALSE, FALSE, blobs[p])
          ELSE Generated("runwayml", p, overwrite, out = "ok", TRUE, FALSE,
                         Download(out, p))

\* the batch moves on; past the last unit it returns
Advance(b) ==
    batch' = IF b.todo = <<>> THEN [b EXCEPT !.pc = "idle", !.last = b.pc] ELSE b

EnterBatch(kind, s, units) ==
    /\ Advance([pc |-> kind, script |-> s, todo |-> units, attempted |-> {},
                raised |-> {}, failed |-> <<>>, last |-> "none"])
    /\ reqNo' = reqNo + 1
    /\ UNCHANGED <<blobs, call, pipeline>>

\* ImageGenerator.generate_images_for_script, up to the first shot
GenerateImagesForScript ==
    /\ batch.pc = "idle"
    /\ reqNo < MaxRequests
    /\ \E depth \in Depths, stills \in StillSets :
          LET s == BatchScript(request, depth, stills)
          IN EnterBatch("images", s, InLoopOrder(ShotPositions(s)))

\* one shot of generate_images_for_script.  ImageGenerator.generate_image:
\* ensure_image_exists reads aws_service.s3_base_uri, which AWSService never
\* sets, and answers False; upload_base64_file reads it before it writes and
\* raises, for the generated image and for the stock image alike.  The
\* opening image's failure is collected and the closing image is skipped.
GenerateImagesShot ==
    /\ batch.pc = "images"
    /\ LET t == Head(batch.todo)
           opening_image_path == OpeningImagePath(t)
       IN Advance([batch EXCEPT !.todo = Tail(@),
                                !.attempted = @ \cup {t},
                                !.raised = @ \cup {opening_image_path},
                                !.failed = Append(@, <<opening_image_path, "error">>)])
    /\ UNCHANGED <<blobs, call, reqNo, pipeline>>

\* VideoGenerator.generate_videos_for_script, up to the first shot
GenerateVideosForScript ==
    /\ batch.pc = "idle"
    /\ reqNo < MaxRequests
    /\ \E depth \in Depths, stills \in StillSets :
          LET s == BatchScript(request, depth, stills)
          IN EnterBatch("videos", s, InLoopOrder(ShotPositions(s)))

\* one shot of generate_videos_for_script.  _generate_video_from_image tries
\* three image combinations; one that reads its images and gets a video
\* writes the local file, then upload_file's s3_base_uri raises, and after
\* the last combination the method raises.  The batch logs it and goes on.
GenerateVideosShot ==
    /\ batch.pc = "videos"
    /\ LET s == batch.script
           t == Head(batch.todo)
           video_path == ShotVideoPath(s, t)
           readable == \/ Exists(blobs, ShotFramePath(s, t, "opening.png"))
                       \/ Exists(blobs, ShotFramePath(s, t, "closing.png"))
       IN IF BatchShot(s, t).still_image
          THEN /\ Advance([batch EXCEPT !.todo = Tail(@)])
               /\ UNCHANGED blobs
          ELSE \E out \in {"ok", "error"} :
                  /\ blobs' = IF readable /\ out = "ok"
                              THEN [blobs EXCEPT ![video_path] = Blob(reqNo)]
                              ELSE blobs
                  /\ Advance([batch EXCEPT !.todo = Tail(@),
                                           !.attempted = @ \cup {t},
                                           !.raised = @ \cup {video_path}])
    /\ UNCHANGED <<call, reqNo, pipeline>>

\* SoundGenerator.generate_audio_for_script, up to the first scene
GenerateAudioForScript ==
    /\ batch.pc = "idle"
    /\ reqNo < MaxRequests
    /\ \E depth \in Depths, stills \in StillSets :
          LET s == BatchScript(request, depth, stills)
          IN EnterBatch("audio", s, InLoopOrder(ScenePositions(s)))

\* one scene of generate_audio_for_script.  _generate_audio_from_text opens
\* the local file, streams the speech into it, then upload_file's s3_base_uri
\* raises and the method re-raises.  The batch logs it and goes on.
GenerateAudioScene ==
    /\ batch.pc = "audio"
    /\ LET s == batch.script
           t == Head(batch.todo)
           audio_path == NarrationPath(s, t)
       IN \E out \in {"ok", "broken"} :
             /\ blobs' = [blobs EXCEPT ![audio_path] =
                             IF out = "ok" THEN Blob(reqNo) ELSE BrokenBlob(reqNo)]
             /\ Advance([batch EXCEPT !.todo = Tail(@),
                                      !.attempted = @ \cup {t},
                                      !.raised = @ \cup {audio_path}])
    /\ UNCHANGED <<call, reqNo, pipeline>>

MediaNext ==
    \/ GenerateImage
    \/ GenerateMusic
    \/ ReplicateGenerateVideo
    \/ RunwayGenerateVideo
    \/ GenerateImagesForScript
    \/ GenerateImagesShot
    \/ GenerateVideosForScript
    \/ GenerateVideosShot
    \/ GenerateAudioForScript
    \/ GenerateAudioScene

MediaSpec == Init /\ [][MediaNext]_vars

\* ------------------------------------------------------ RunwayML, by steps
\* RunwayMLVideoService.generate_video has returned (success, local_path);
\* `after` is the file it leaves at its path
TaskReturned(tk, success, backend, after) ==
    LET p == GetShotPath(tk.shot) IN
    /\ call' = [adapter |-> "runwayml", path |-> p, overwrite |-> tk.overwrite,
                before |-> blobs[p], after |-> after, success |-> success,
                local_path |-> IF success THEN p ELSE NoPath, backend |-> backend,
                raised |-> FALSE]
    /\ blobs' = [blobs EXCEPT ![p] = after]
    /\ task' = [tk EXCEPT !.pc = "returned"]

\* RunwayMLVideoService.generate_video from its first line to the start of
\* `while True`: the opening frame is looked up and image_to_video.create is
\* called; a missing frame or a failed create returns (False, None)
RunwayCreateTask ==
    /\ batch.pc = "idle"
    /\ task.pc # "polling"
    /\ reqNo < MaxRequests
    /\ reqNo' = reqNo + 1
    /\ \E t \in AdapterShots, overwrite \in BOOLEAN, created \in BOOLEAN :
          LET tk == [pc |-> "polling", shot |-> t, overwrite |-> overwrite,
                     by |-> reqNo + 1, status |-> "none"]
          IN IF ~Exists(blobs, GetShotImagePath(t, "opening.png"))
             THEN TaskReturned(tk, FALSE, FALSE, blobs[GetShotPath(t)])
             ELSE IF ~created
             THEN TaskReturned(tk, FALSE, TRUE, blobs[GetShotPath(t)])
             ELSE /\ task' = tk
                  /\ UNCHANGED <<blobs, call>>
    /\ UNCHANGED <<batch, scripted, instances, served, files>>

\* one iteration of `while True`: task = self.client.tasks.retrieve(task_id);
\* SUCCEEDED breaks (then the download), FAILED raises (return False, None),
\* any other status sleeps poll_interval seconds and polls again
RunwayPoll ==
    /\ task.pc = "polling"
    /\ \E status \in TaskStatuses, out \in BackendOutcomes :
          LET p == GetShotPath(task.shot)
              tk == [task EXCEPT !.status = status]
          IN IF status = "SUCCEEDED"
             THEN TaskReturned(tk, out = "ok", TRUE,
                               IF out = "ok" THEN Blob(task.by)
                               ELSE IF out = "broken" THEN BrokenBlob(task.by)
                               ELSE blobs[p])
             ELSE IF status = "FAILED"
             THEN TaskReturned(tk, FALSE, TRUE, blobs[p])
             ELSE /\ task' = tk
                  /\ UNCHANGED <<blobs, call>>
    /\ UNCHANGED <<reqNo, batch, scripted, instances, served, files>>

PollNext ==
    \/ GenerateImage
    \/ RunwayCreateTask
    \/ RunwayPoll

\* `await asyncio.sleep(poll_interval)` returns and the loop polls again: a
\* generate_video call in its loop is not left suspended for ever
PollSpec == Init /\ [][PollNext]_vars /\ WF_vars(RunwayPoll)

\* ------------------------------------------------- media routes by project
\* a media route, which runs while no other handler does, has obtained its
\* service object for `project_name` and has read or written a file through
\* it, under the object's temp_dir
Serve(service, project_name, inst) ==
    /\ instances' = inst
    /\ served' = [service |-> service, project_name |-> project_name,
                  temp_dir |-> inst[service]]
    /\ files' = files \cup {<<inst[service], service>>}
    /\ UNCHANGED <<scripted, reqNo, blobs, call, batch, task>>

\* POST /api/generate-shot-video/{project_name}: aws_service = AWSService(
\* project_name); VideoServiceFactory.create_video_service(VideoProvider(
\* request.provider.lower()), aws_service); video_service.generate_video(...)
GenerateShotVideoRoute ==
    /\ pc = "idle"
    /\ \E project_name \in ProjectNames, provider \in VideoProviders :
        Serve(provider, project_name,
              CreateVideoService(instances, provider, AWSService(project_name)))

\* POST /api/regenerate-image/{project_name}: ImageService(aws_service=
\* aws_service, ...); image_service.generate_image(...)
RegenerateImageRoute ==
    /\ pc = "idle"
    /\ \E project_name \in ProjectNames :
        Serve("image", project_name, ImageServiceInit(instances, AWSService(project_name)))

\* POST /api/generate-background-music/{project_name}: BackgroundMusicService(
\* aws_service=aws_service); music_service.generate_music(...)
GenerateBackgroundMusicRoute ==
    /\ pc = "idle"
    /\ \E project_name \in ProjectNames :
        Serve("music", project_name,
              BackgroundMusicServiceInit(instances, AWSService(project_name)))

BindingNext ==
    \/ GenerateShotVideoRoute
    \/ RegenerateImageRoute
    \/ GenerateBackgroundMusicRoute

BindingSpec == Init /\ [][BindingNext]_vars

\* ------------------------------------------------------------- properties
\* the last request returned a Script (HTTP 200)
Returned(op) == pc = "idle" /\ caller = op /\ result = Ok

ShotItems(s, p) == ShotsOf(s, p[1], p[2]).items
ShotNode(p, j) == <<"shot", p[1], p[2], j>>
ShotCalls(p) == {n \in calls : n[1] = "shot" /\ n[2] = p[1] /\ n[3] = p[2]}
IsPrefix(a, b) == Len(a) <= Len(b) /\ SubSeq(b, 1, Len(a)) = a

\* the shots of the in-memory Script s that the file d does not hold
UnsavedShots(s, d) ==
    UNION {{<<p, j>> : j \in {i \in DOMAIN ShotItems(s, p) :
                ~ (/\ p \in ScenePairs(d)
                   /\ i \in DOMAIN ShotItems(d, p)
                   /\ ShotItems(d, p)[i] = ShotItems(s, p)[i])}} : p \in ScenePairs(s)}

\* chapter, scene and shot numbers are 1..len in list order
Dense(s) ==
    \A ci \in DOMAIN s.chapters :
        /\ s.chapters[ci].chapter_number = ci
        /\ \A si \in DOMAIN s.chapters[ci].scenes.items :
            /\ s.chapters[ci].scenes.items[si].scene_number = si
            /\ \A j \in DOMAIN s.chapters[ci].scenes.items[si].shots.items :
                s.chapters[ci].scenes.items[si].shots.items[j].shot_number = j

\* the <<chapter_index, scene_index>> regenerate_scene was called with
RegeneratedPair ==
    LET n == CHOOSE n \in calls : n[1] = "regenerate_scene" IN <<n[2], n[3]>>

\* C1: create_script for a project whose script.json exists returns exactly the
\* stored document and issues no LLM call.
C1_IdempotentCreate ==
    (Returned("create_script") /\ disk0 # NoScript) =>
        (script = disk0 /\ calls = {})

\* C2: when create_script, generate_shots, regenerate_scene or
\* regenerate_chapter returns a Script, script.json holds exactly that Script.
C2_WriteThrough ==
    (pc = "idle" /\ result = Ok
        /\ caller \in {"create_script", "generate_shots", "regenerate_scene",
                       "regenerate_chapter"})
    => disk = script

\* C3: generate_shots, given a scene that holds shots 1..k, issues LLM calls for
\* exactly the shots k+1..number_of_shots of that scene and keeps shots 1..k.
C3_OnlyMissingShots ==
    Returned("generate_shots") =>
        \A p \in ScenePairs(script0) :
            LET k == Len(ShotItems(script0, p))
                n == script0.project_details.number_of_shots
            IN /\ ShotCalls(p) = {ShotNode(p, j) : j \in k..(n - 1)}
               /\ IsPrefix(ShotItems(script0, p), ShotItems(script, p))

\* C4: while generate_shots runs, every shot appended to the in-memory Script,
\* except possibly the most recent one, is in script.json.
C4_PersistEachShot ==
    pc = "generate_shots" => Cardinality(UnsavedShots(script, disk)) <= 1

\* C5: when generate_shots raises, the failing shot has had exactly max_retries
\* LLM calls, no shot stands at the failing position, every shot a scene held
\* when generate_shots was entered is still there, and script.json is what it
\* was when generate_shots was entered.
C5_RetryExhaustion ==
    (pc = "idle" /\ result.raised = "generate_shots") =>
        LET p == <<loop.chapter_idx, loop.scene_idx>> IN
        /\ lastNode = ShotNode(p, loop.number)
        /\ nodeCalls = gsargs.max_retries
        /\ Len(ShotItems(script, p)) = loop.number
        /\ \A q \in ScenePairs(gsargs.entry_script) :
                IsPrefix(ShotItems(gsargs.entry_script, q), ShotItems(script, q))
        /\ disk = gsargs.entry_disk
C5_Exhausted ==
    /\ pc = "idle" /\ result.raised = "generate_shots"
    /\ gsargs.max_retries > 1
    /\ \E q \in ScenePairs(gsargs.entry_script) : ShotItems(gsargs.entry_script, q) # <<>>

\* C6: a step of generate_shots that receives a valid response is the N-th call
\* for its shot, N - 1 failures before it and N <= max_retries; it appends
\* exactly the shot parsed from that response, numbered shot_number + 1, and
\* does not raise.  A step that receives a malformed response leaves the Script
\* as it is.
C6_RetryThenSucceed ==
    [][pc = "generate_shots" =>
        LET p == <<loop.chapter_idx, loop.scene_idx>> IN
        IF lastResp'.kind = "valid"
        THEN /\ lastNode' = ShotNode(p, loop.number)
             /\ nodeCalls' = (gsargs.max_retries - loop.remaining_attempts) + 1
             /\ nodeCalls' <= gsargs.max_retries
             /\ ShotItems(script', p) =
                    Append(ShotItems(script, p),
                           [shot_number |-> loop.number + 1, tag |-> lastResp'.tag])
             /\ lastResp'.tag = reqNo
             /\ result'.status # "http500"
        ELSE script' = script]_vars
C6_SucceededAfterFailures ==
    /\ lastNode[1] = "shot"
    /\ lastResp.kind = "valid"
    /\ nodeCalls >= 2
    /\ pc = "generate_shots"

C8_SiblingIsolation ==
    (caller = "regenerate_scene" /\ calls # {}) =>
        LET c == RegeneratedPair[1]
            s == RegeneratedPair[2]
        IN /\ Len(script.chapters) = Len(script0.chapters)
           /\ \A ci \in DOMAIN script.chapters :
                ci # c + 1 => script.chapters[ci] = script0.chapters[ci]
           /\ script.chapters[c + 1].chapter_number = script0.chapters[c + 1].chapter_number
           /\ script.chapters[c + 1].tag = script0.chapters[c + 1].tag
           /\ Len(ScenesOf(script, c).items) = Len(ScenesOf(script0, c).items)
           /\ \A si \in DOMAIN ScenesOf(script, c).items :
                si # s + 1 => ScenesOf(script, c).items[si] = ScenesOf(script0, c).items[si]
           /\ calls \subseteq {<<"regenerate_scene", c, s, 0>>} \cup ShotCalls(<<c, s>>)
C8_RegeneratedAmongSiblings ==
    /\ Returned("regenerate_scene")
    /\ Len(script.chapters) > 1
    /\ \E p \in ScenePairs(script) :
        /\ p[1] = RegeneratedPair[1]
        /\ p[2] # RegeneratedPair[2]
        /\ ShotItems(script, p) # <<>>
    /\ SceneAt(script, RegeneratedPair[1], RegeneratedPair[2]).tag = reqNo

\* C9: a regenerate-shot request either returns the Script or is refused for
\* its indices (or for the absence of a script): it does not fail otherwise.
C9_RegenerateShotServed ==
    (pc = "idle" /\ caller = "regenerate_shot") =>
        result.raised \in {"none", "get_script", "index_check"}

\* C10: when regenerate_chapter returns, the chapter list has the length it
\* had, the chapter at chapter_index is the one parsed from the response with
\* chapter_number = chapter_index + 1 and no scenes, every other chapter is
\* what it was, the only LLM calls were for that chapter, and nothing was
\* written to script.json.
C10_ChapterReplacedInPlace ==
    pc = "regenerate_chapter_returned" =>
        /\ Len(script.chapters) = Len(script0.chapters)
        /\ script.chapters[route.chapter_idx + 1] =
                [chapter_number |-> route.chapter_idx + 1, tag |-> reqNo,
                 scenes |-> NoneList]
        /\ \A ci \in DOMAIN script.chapters :
                ci # route.chapter_idx + 1 => script.chapters[ci] = script0.chapters[ci]
        /\ calls = {<<"chapter", route.chapter_idx, 0, 0>>}
        /\ disk = disk0
C10_ChapterReplaced ==
    /\ pc = "regenerate_chapter_returned"
    /\ Len(script.chapters) > 1
    /\ lastResp.number = UnsetNumber
    /\ ~ Falsy(script0.chapters[route.chapter_idx + 1].scenes)
    /\ nodeCalls >= 2

\* every node of the Script s carries the tag of a validated response
Validated(s) ==
    \A ci \in DOMAIN s.chapters :
        /\ s.chapters[ci].tag # 0
        /\ \A si \in DOMAIN s.chapters[ci].scenes.items :
            /\ s.chapters[ci].scenes.items[si].tag # 0
            /\ \A j \in DOMAIN s.chapters[ci].scenes.items[si].shots.items :
                s.chapters[ci].scenes.items[si].shots.items[j].tag # 0

\* C11: in every reachable state every chapter, scene and shot of the
\* in-memory Script and of script.json was parsed from a validated LLM
\* response: no placeholder or empty node is ever spliced in.
C11_OnlyValidatedNodes ==
    Validated(script) /\ Validated(disk)

\* C12: the prompt of the LLM call for shot k of a scene holds the shots
\* 1..k-1 of that scene, exactly as the run appended them, and no other shot
\* of that scene: shot k is requested only once shot k-1 has been appended.
C12_ShotContext ==
    lastNode[1] = "shot" =>
        LET p == <<lastNode[2], lastNode[3]>>
            k == lastNode[4] + 1
        IN /\ p \in ScenePairs(prompt.complete_script)
           /\ Len(ShotItems(prompt.complete_script, p)) = k - 1
           /\ IsPrefix(ShotItems(prompt.complete_script, p), ShotItems(script, p))
C12_LaterShotPrompted ==
    /\ lastNode[1] = "shot"
    /\ lastNode[4] >= 1
    /\ nodeCalls >= 2
    /\ ShotItems(prompt.complete_script, <<lastNode[2], lastNode[3]>>) # <<>>

\* C13: a successful create_script for a project without script.json returns
\* exactly number_of_chapters chapters, each with exactly number_of_scenes
\* scenes, whatever the LLM responses contain.
C13_ExactCounts ==
    (Returned("create_script") /\ disk0 = NoScript) =>
        /\ Len(script.chapters) = request.number_of_chapters
        /\ \A ci \in DOMAIN script.chapters :
            Len(script.chapters[ci].scenes.items) = request.number_of_scenes

\* C14: create_script issues no shot LLM call, and the Script it returns and
\* the document it persists have no shots in any scene.
C14_CreateWithoutShots ==
    caller = "create_script" =>
        /\ \A n \in calls : n[1] # "shot"
        /\ \A p \in ScenePairs(script) : ShotItems(script, p) = <<>>
        /\ \A p \in ScenePairs(disk) : ShotItems(disk, p) = <<>>

\* C15: when generate_shots returns (called by its route or by create_script),
\* every scene that had no shots in the Script it was given holds exactly
\* number_of_shots shots, numbered 1..number_of_shots in order.
C15_ShotsComplete ==
    (Returned("generate_shots") \/ Returned("create_script")) =>
        \A p \in ScenePairs(script) :
            (script0 = NoScript \/ Falsy(ShotsOf(script0, p[1], p[2]))) =>
                /\ Len(ShotItems(script, p)) = script.project_details.number_of_shots
                /\ \A j \in DOMAIN ShotItems(script, p) :
                        ShotItems(script, p)[j].shot_number = j
C15_AllScenesFilled ==
    /\ Returned("generate_shots")
    /\ Len(script.chapters) > 1
    /\ script.project_details.number_of_shots > 1
    /\ \A p \in ScenePairs(script0) : ShotItems(script0, p) = <<>>
    /\ \A p \in ScenePairs(script) : ShotItems(script, p) # <<>>

\* C16: a node generation that fails inside create_script, generate_shots,
\* regenerate_scene or regenerate_chapter, none of which is given a retry
\* budget by its caller, fails after exactly 10 attempts.
C16_DefaultBudget ==
    (pc = "idle" /\ result.raised \in {"generate_chapters", "generate_scenes",
                                       "generate_shots", "regenerate_scene",
                                       "regenerate_chapter"})
    => nodeCalls = DefaultMaxRetries

\* C17: the first LLM attempt for a node is made with prev_errors = "N/A":
\* the error of another node's failed attempt is never carried into it.
C17_FirstAttemptSentinel ==
    nodeCalls = 1 =>
        /\ prompt.prev_errors = "N/A"
        /\ prompt.previous_generation_error = "N/A"

\* C18: once a save has succeeded, the local cache (script.json) and the
\* durable store (S3) hold the same, new document.
C18_SaveBothStores ==
    disk # NoScript => s3 = disk

\* C19: adapter short-circuit.  Whenever a media adapter (image, background
\* music, either video provider) was called with overwrite false for a path
\* where a file already was, it returned success with that path, made no
\* call to the generation backend, and left the file as it was.
C19_AdapterShortCircuit ==
    (call.adapter # "none" /\ call.before # NoBlob /\ ~call.overwrite) =>
        /\ call.success
        /\ ~call.raised
        /\ call.local_path = call.path
        /\ ~call.backend
        /\ call.after = call.before

\* the units a batch is to attempt: every shot for images, every shot that is
\* not a still image for videos, every scene for narration audio
BatchUnits(kind, s) ==
    IF kind = "audio" THEN ScenePositions(s)
    ELSE IF kind = "videos" THEN {t \in ShotPositions(s) : ~BatchShot(s, t).still_image}
    ELSE ShotPositions(s)

\* C20: batch failure isolation.  When a whole-script batch (images, videos,
\* narration audio) has returned, generation was attempted for every shot or
\* scene of the script whatever failed before it, and every path whose
\* generation raised is in the collected list of (path, error) pairs.
C20_BatchFailureIsolation ==
    (batch.pc = "idle" /\ batch.last # "none") =>
        /\ batch.attempted = BatchUnits(batch.last, batch.script)
        /\ {batch.failed[i][1] : i \in 1..Len(batch.failed)} = batch.raised

\* the entry points that change a node of the stored document in place
MutatingEntryPoints ==
    {"regenerate_scene", "regenerate_chapter", "regenerate_shot",
     "update_shot_description", "update_narration"}

\* a 1-based index of the request points outside the document s
OutsideDocument(s, a) ==
    /\ a.level # "none"
    /\ \/ a.chapter_index \notin 1..Len(s.chapters)
       \/ /\ a.level \in {"scene", "shot"}
          /\ a.scene_index \notin 1..Len(ScenesOf(s, a.chapter_index - 1).items)
       \/ /\ a.level = "shot"
          /\ a.shot_index \notin
                1..Len(ShotsOf(s, a.chapter_index - 1, a.scene_index - 1).items)

\* C21: index validation before mutation.  A mutating entry point that was
\* sent a chapter, scene or shot index outside the stored document (0
\* included) answers with an invalid-index error (400 or 404, not the 500 of
\* a generation failure), issues no LLM call and leaves script.json as it was.
C21_IndexValidation ==
    (/\ pc = "idle"
     /\ caller \in MutatingEntryPoints
     /\ script0 # NoScript
     /\ OutsideDocument(script0, args)) =>
        /\ result.status \in {"http400", "http404"}
        /\ calls = {}
        /\ disk = disk0

\* the scene a regenerate-scene request was sent for
TargetScene(s, a) == SceneAt(s, a.chapter_index - 1, a.scene_index - 1)

\* two regenerate-scene requests for different scenes, served by the two
\* processes, have both returned 200, and each had loaded script.json before
\* the other saved it
BothRegenerated ==
    /\ pc = "idle" /\ parked.pc = "idle"
    /\ caller = "regenerate_scene" /\ parked.caller = "regenerate_scene"
    /\ result = Ok /\ parked.result = Ok
    /\ args # parked.args
    /\ script0 = parked.script0

\* C22: concurrent mutation race.  When two regenerate-scene requests for
\* different scenes of one project overlap and both succeed, script.json is
\* the document of the one that saved last, and in it the scene the other
\* request regenerated is still the scene both had loaded: that change is lost.
C22_LastWriteWins ==
    BothRegenerated =>
        \/ /\ disk = script
           /\ TargetScene(disk, parked.args) = TargetScene(script0, parked.args)
        \/ /\ disk = parked.script
           /\ TargetScene(disk, args) = TargetScene(script0, args)

\* both requests returned their regenerated scene, and script.json holds only
\* one of the two
C22_OneChangeLost ==
    /\ BothRegenerated
    /\ disk = script
    /\ TargetScene(script, args) # TargetScene(script0, args)
    /\ TargetScene(parked.script, parked.args) # TargetScene(script0, parked.args)
    /\ TargetScene(disk, parked.args) # TargetScene(parked.script, parked.args)

\* the scene-generation LLM calls create_script has issued
SceneCalls == {n \in calls : n[1] = "scene"}

\* C23: a create_script that builds a new script issues one LLM call for the
\* chapter list and one LLM call per chapter for that chapter's scenes: 1 +
\* number_of_chapters calls, never one call per scene.  (A retried call is
\* counted once: `calls` holds the nodes that were asked for.)
C23_OneCallPerChapter ==
    (Returned("create_script") /\ script0 = NoScript) =>
        /\ \A m, n \in SceneCalls : m[2] = n[2] => m = n
        /\ Cardinality(calls) = 1 + Len(script.chapters)

\* C24: while generate_scenes runs for a chapter, the prompt of the LLM call
\* for scene k of that chapter holds the chapters generated before it and the
\* scenes 1..k-1 this run has generated for the chapter.
C24_SceneContext ==
    (pc = "generate_scenes" /\ lastNode[1] = "scene" /\ lastNode[2] = loop.chapter_idx) =>
        LET ci == lastNode[2] + 1
            k == lastNode[3] + 1
            sent == prompt.complete_script.chapters
        IN /\ \A c \in 1..(ci - 1) : c \in DOMAIN sent /\ sent[c] = script.chapters[c]
           /\ k > 1 => /\ ci \in DOMAIN sent
                       /\ IsPrefix(SubSeq(scenes, 1, k - 1), sent[ci].scenes.items)

\* C25: when the LLM response for the scene regenerate_scene asked for does
\* not parse or validate, the call is retried, and regenerate_scene raises
\* only once max_retries (10) calls in a row have failed.
C25_RegenerateSceneRetries ==
    (lastNode[1] = "regenerate_scene" /\ lastResp.kind # "valid") =>
        IF nodeCalls < DefaultMaxRetries
        THEN pc = "regenerate_scene" /\ result = Pending
        ELSE pc = "idle" /\ result.raised = "regenerate_scene"

\* create_script is building a new script and has not finished the scenes of
\* its last chapter, or has raised while generating chapters or scenes
CreateUnfinished ==
    /\ caller = "create_script"
    /\ script0 = NoScript
    /\ \/ pc \in {"generate_chapters", "generate_scenes"}
       \/ pc = "idle" /\ result.raised \in {"generate_chapters", "generate_scenes"}

\* C26: create_script writes script.json only once every chapter has its
\* scenes.  Until then, and after chapter or scene generation has exhausted
\* its retries and create_script has raised, the project has no document:
\* _try_load_script returns None, and the next create_script starts again at
\* generate_chapters with no chapter.
C26_PersistAfterAllScenes ==
    /\ [](CreateUnfinished => disk = NoScript /\ TryLoadScript(disk) = NoScript)
    /\ [][(CreateUnfinished /\ pc = "idle" /\ caller' = "create_script" /\ reqNo' # reqNo)
            => /\ pc' = "generate_chapters"
               /\ script0' = NoScript
               /\ script'.chapters = <<>>]_vars

\* create_script raised in the scenes of the second chapter, with the first
\* chapter's scenes generated, and no script.json exists
C26_RaisedInSecondChapter ==
    /\ pc = "idle" /\ caller = "create_script" /\ script0 = NoScript
    /\ result.raised = "generate_scenes"
    /\ loop.chapter_idx = 1
    /\ script.chapters[1].scenes.items # <<>>
    /\ disk = NoScript

\* the attempts the running loop gives one node: generate_shots' max_retries
\* argument, the default of 10 everywhere else
NodeBudget == IF pc = "generate_shots" THEN gsargs.max_retries ELSE DefaultMaxRetries

\* this step issued an LLM call
IssuedCall == reqNo' = reqNo /\ <<lastNode, nodeCalls>>' # <<lastNode, nodeCalls>>

\* C27: bounded retry and termination.  Every LLM call is for a node that was
\* not left before and is at most the max_retries-th call in a row for it; a
\* run of the generate_shots route calls for at most chapters x scenes x
\* number_of_shots nodes (hence at most that many x max_retries calls); and
\* every running request ends, returning or raising, whatever the LLM returns.
C27_BoundedRetries ==
    /\ [][IssuedCall => /\ nodeCalls' <= NodeBudget
                        /\ lastNode' # lastNode => lastNode' \notin calls]_vars
    /\ [](caller = "generate_shots" =>
            /\ \A n \in calls : n[1] = "shot"
            /\ Cardinality(calls) <= Len(script.chapters) * script.project_details.number_of_scenes
                                        * script.project_details.number_of_shots)
    /\ (pc # "idle") ~> (pc = "idle")

\* a generate_shots run used all 10 attempts for one shot after it had
\* generated another, and raised
C27_BudgetUsedUp ==
    /\ pc = "idle" /\ caller = "generate_shots"
    /\ result.raised = "generate_shots"
    /\ nodeCalls = DefaultMaxRetries
    /\ Cardinality(calls) >= 2

\* C28: project binding of media services.  The service object a request
\* obtains for its project reads and writes under the temp directory of that
\* project's AWSService, whatever projects earlier requests were for.
C28_ProjectBinding ==
    served.service # "none" => served.temp_dir = AWSService(served.project_name).temp_dir

\* C29: all-or-error for every retry budget.  When generate_shots, called
\* with any max_retries (0 included), returns, every scene that had no shots
\* holds number_of_shots shots: it never returns with fewer.
C29_AllOrError ==
    (pc = "idle" /\ caller = "generate_shots_direct" /\ result = Ok) =>
        \A p \in ScenePairs(script) :
            Falsy(ShotsOf(script0, p[1], p[2])) =>
                Len(ShotItems(script, p)) = script.project_details.number_of_shots

\* C30: video generation always returns.  Whatever the backend reports, a
\* RunwayML generate_video call that has entered its status-polling loop
\* eventually returns a (success, path) result.
C30_PollingReturns ==
    (task.pc = "polling") ~> (task.pc = "returned")

====
